---- MODULE Spec2Model ----
(***************************************************************************)
(* Connection lifecycle and discovery subsystem of mcporter.               *)
(*                                                                         *)
(* Text that the program inspects character by character (names, the       *)
(* override environment variables, command tokens, error messages) is a    *)
(* sequence of one-character strings, so that toLowerCase, trim, split and *)
(* includes are computed as the code computes them.  Text that the program *)
(* only compares for equality (modes, kinds) is a TLA+ string.             *)
(***************************************************************************)
EXTENDS Integers, Sequences, FiniteSets, TLC

VARIABLES
    (* lifecycle module (src/unnamed/part_000) *)
    env,              \* process.env: MCPORTER_KEEPALIVE, _DISABLE_KEEPALIVE, _NO_KEEPALIVE
    includeOverride,  \* module constant, set when the module is loaded
    excludeOverride,  \* module constant, set when the module is loaded
    lcPc,             \* "off" | "start" (before module load) | "loaded" | "resolved"
    name,             \* resolveLifecycle argument
    rawLifecycle,     \* resolveLifecycle argument
    command,          \* resolveLifecycle argument
    lifecycle,        \* resolveLifecycle result
    (* error classifier (src/src/cli.ts) *)
    clPc,             \* "off" | "start" | "classified"
    error,            \* classifyListError argument: the thrown value
    errorParts,       \* the pieces the thrown value's message was put together from
    serverName,       \* classifyListError argument
    advice,           \* classifyListError result
    (* discovery: fan-out over the configured servers, rendered with src/src/cli.ts *)
    dPc,              \* "off" | "idle" | "running" | "done" | "raised"
    serverState,      \* per configured server: "pending" | "running" | "ok" | "failed"
    completed,        \* the ListOutcomes, in the order the servers completed
    results,          \* the ListOutcomes handed to the renderer
    rows,             \* the rendered rows
    (* connection cache (spec.md 4.3) *)
    ccPc,             \* "off" | "open" | "closed"
    cacheEntries,     \* the cache entries: {serverName, connection}
    creating,         \* the connection creations in flight
    liveConnections,  \* the connections that are open
    createCalls,      \* per server name: invocations of the creation collaborator
    evictions,        \* per server name: cache entries removed
    callers,          \* per caller: where its getOrCreate call stands
    (* OAuth gate (spec.md 4.2, src/tests/runtime-oauth-detection.test.ts) *)
    oPc,              \* "off" | "start" | "done"
    given,            \* the definition as the caller built it
    definition,       \* the caller's definition object, passed to maybeEnableOAuth
    updated,          \* maybeEnableOAuth result
    infoCalls         \* calls of logger.info

lifecycleVars == <<env, includeOverride, excludeOverride, lcPc, name, rawLifecycle, command, lifecycle>>
classifierVars == <<clPc, error, errorParts, serverName, advice>>
discoveryVars == <<dPc, serverState, completed, results, rows>>

cacheVars == <<ccPc, cacheEntries, creating, liveConnections, createCalls, evictions, callers>>

oauthVars == <<oPc, given, definition, updated, infoCalls>>

vars == <<lifecycleVars, classifierVars, discoveryVars, cacheVars, oauthVars>>

----------------------------------------------------------------------------
(* Bounds *)

\* largest magnitude of a numeric idleTimeoutMs, in whole milliseconds
MaxTimeout == 5

\* numeric idleTimeoutMs values are the multiples of 1/TimeoutDen
TimeoutDen == 2

\* most arguments of a stdio command
MaxArgs == 2

\* most pieces an error message is put together from
MaxParts == 2

\* number of configured servers of a discovery run
NumServers == 3

\* most tools a server reports
MaxTools == 2

\* number of concurrent callers of the connection cache
NumCallers == 3

\* most connection creations per server name
MaxCreates == 2

----------------------------------------------------------------------------
(* JavaScript strings as sequences of characters *)

UpperChars == <<"A","B","C","D","E","F","G","H","I","J","K","L","M","N","O","P","Q","R","S","T","U","V","W","X","Y","Z">>
LowerChars == <<"a","b","c","d","e","f","g","h","i","j","k","l","m","n","o","p","q","r","s","t","u","v","w","x","y","z">>

UpperSet == {UpperChars[i] : i \in 1..26}
LowerOf == [u \in UpperSet |-> LowerChars[CHOOSE i \in 1..26 : UpperChars[i] = u]]

\* String.prototype.toLowerCase on one character
LowerChar(c) == IF c \in UpperSet THEN LowerOf[c] ELSE c

\* String.prototype.toLowerCase
toLowerCase(s) == [i \in 1..Len(s) |-> LowerChar(s[i])]

\* String.prototype.includes
includes(s, sub) ==
    \E i \in 1..(Len(s) - Len(sub) + 1) : SubSeq(s, i, i + Len(sub) - 1) = sub

IsSpace(c) == c \in {" ", "\t", "\n"}

\* String.prototype.trim
trim(s) ==
    IF \A i \in 1..Len(s) : IsSpace(s[i])
    THEN <<>>
    ELSE LET first == CHOOSE i \in 1..Len(s) :
                          ~IsSpace(s[i]) /\ \A j \in 1..(i - 1) : IsSpace(s[j])
             last  == CHOOSE i \in 1..Len(s) :
                          ~IsSpace(s[i]) /\ \A j \in (i + 1)..Len(s) : IsSpace(s[j])
         IN  SubSeq(s, first, last)

\* String.prototype.split(','): the pieces between the commas, in order
RECURSIVE split(_)
split(s) ==
    IF \A i \in 1..Len(s) : s[i] # ","
    THEN <<s>>
    ELSE LET k == CHOOSE i \in 1..Len(s) : s[i] = "," /\ \A j \in 1..(i - 1) : s[j] # ","
         IN  <<SubSeq(s, 1, k - 1)>> \o split(SubSeq(s, k + 1, Len(s)))

\* Array.prototype.join(',') (used to build the environment values)
RECURSIVE join(_)
join(ts) ==
    IF Len(ts) = 0 THEN <<>>
    ELSE IF Len(ts) = 1 THEN ts[1]
    ELSE ts[1] \o <<",">> \o join(Tail(ts))

Range(f) == {f[i] : i \in DOMAIN f}

\* an optional string: undefined, or a defined character sequence
Undef == [def |-> FALSE, v |-> <<>>]
Str(s) == [def |-> TRUE, v |-> s]

----------------------------------------------------------------------------
(* src/unnamed/part_000: lifecycle resolution *)

DEFAULT_KEEP_ALIVE ==
    { <<"c","h","r","o","m","e","-","d","e","v","t","o","o","l","s">>,
      <<"m","o","b","i","l","e","-","m","c","p">>,
      <<"p","l","a","y","w","r","i","g","h","t">> }

\* each signature is its set of fragments
KEEP_ALIVE_COMMANDS ==
    { { <<"c","h","r","o","m","e","-","d","e","v","t","o","o","l","s","-","m","c","p">> },
      { <<"@","m","o","b","i","l","e","n","e","x","t","/","m","o","b","i","l","e","-","m","c","p">>,
        <<"m","o","b","i","l","e","-","m","c","p">> },
      { <<"@","p","l","a","y","w","r","i","g","h","t","/","m","c","p">>,
        <<"p","l","a","y","w","r","i","g","h","t","/","m","c","p">> } }

\* a ServerLifecycle | undefined
NoLifecycle == [mode |-> "undefined", hasIdleTimeout |-> FALSE, idleTimeoutMs |-> 0]
KeepAlive == [mode |-> "keep-alive", hasIdleTimeout |-> FALSE, idleTimeoutMs |-> 0]
KeepAliveFor(t) == [mode |-> "keep-alive", hasIdleTimeout |-> TRUE, idleTimeoutMs |-> t]
Ephemeral == [mode |-> "ephemeral", hasIdleTimeout |-> FALSE, idleTimeoutMs |-> 0]

\* a JavaScript value found in idleTimeoutMs: a number n/TimeoutDen, NaN,
\* +-Infinity, a string, or nothing
Num(n) == [type |-> "number", cls |-> "finite", num |-> n]
NaN == [type |-> "number", cls |-> "nan", num |-> 0]
PosInfinity == [type |-> "number", cls |-> "inf", num |-> 0]
NegInfinity == [type |-> "number", cls |-> "-inf", num |-> 0]
NotANumber == [type |-> "string", cls |-> "finite", num |-> 1]
Absent == [type |-> "undefined", cls |-> "finite", num |-> 0]

\* Math.trunc of num/TimeoutDen: rounds toward zero
MathTrunc(num) == IF num >= 0 THEN num \div TimeoutDen ELSE -((-num) \div TimeoutDen)

\* a RawLifecycle | undefined
RawUndefined == [kind |-> "undefined", str |-> "", mode |-> "", idleTimeoutMs |-> Absent]
RawString(s) == [kind |-> "string", str |-> s, mode |-> "", idleTimeoutMs |-> Absent]
RawObject(m, t) == [kind |-> "object", str |-> "", mode |-> m, idleTimeoutMs |-> t]

parseList(value) ==
    IF ~value.def \/ value.v = <<>>
    THEN [all |-> FALSE, names |-> {}]
    ELSE LET tokens == split(value.v)
             names == { toLowerCase(trim(tokens[i])) : i \in 1..Len(tokens) } \ { <<>> }
         IN  IF <<"*">> \in names
             THEN [all |-> TRUE, names |-> {}]
             ELSE [all |-> FALSE, names |-> names]

\* coerceLifecycle without the `raw.idleTimeoutMs > 0` test
coerceLifecycleNoSignTest(raw) ==
    IF raw.kind = "string"
    THEN IF raw.str = "keep-alive" THEN KeepAlive
         ELSE IF raw.str = "ephemeral" THEN Ephemeral
         ELSE NoLifecycle
    ELSE IF raw.mode = "keep-alive"
    THEN LET t == raw.idleTimeoutMs
             valid == t.type = "number" /\ t.cls = "finite"
             timeout == IF valid THEN MathTrunc(t.num) ELSE 0
         IN  IF valid /\ timeout # 0 THEN KeepAliveFor(timeout) ELSE KeepAlive
    ELSE IF raw.mode = "ephemeral" THEN Ephemeral
    ELSE NoLifecycle

coerceLifecycle(raw) ==
    IF raw.kind = "string"
    THEN IF raw.str = "keep-alive" THEN KeepAlive
         ELSE IF raw.str = "ephemeral" THEN Ephemeral
         ELSE NoLifecycle
    ELSE IF raw.mode = "keep-alive"
    THEN LET t == raw.idleTimeoutMs
             valid == t.type = "number" /\ t.cls = "finite" /\ t.num > 0
             timeout == IF valid THEN MathTrunc(t.num) ELSE 0
         IN  IF valid /\ timeout # 0 THEN KeepAliveFor(timeout) ELSE KeepAlive
    ELSE IF raw.mode = "ephemeral" THEN Ephemeral
    ELSE NoLifecycle

matchesKeepAliveSignature(cmd) ==
    IF cmd.kind # "stdio"
    THEN FALSE
    ELSE LET tokens == { toLowerCase(t) : t \in {cmd.command} \cup Range(cmd.args) }
         IN  \E signature \in KEEP_ALIVE_COMMANDS :
                 \E fragment \in signature : \E token \in tokens : includes(token, fragment)

\* the truthiness test `rawLifecycle ?` of line 39: undefined and '' are falsy
RawTruthy(raw) == raw.kind = "object" \/ (raw.kind = "string" /\ raw.str # "")

forcedEnableFor(incl, n) == incl.all \/ toLowerCase(n) \in incl.names
forcedDisableFor(excl, n) == excl.all \/ toLowerCase(n) \in excl.names

\* resolveLifecycle with the force-disable test ahead of the force-enable test
resolveLifecycleDisableFirst(incl, excl, n, raw, cmd) ==
    LET normalizedName == toLowerCase(n)
        coerced == IF RawTruthy(raw) THEN coerceLifecycle(raw) ELSE NoLifecycle
    IN  IF forcedDisableFor(excl, n) THEN NoLifecycle
        ELSE IF forcedEnableFor(incl, n) THEN KeepAlive
        ELSE IF coerced # NoLifecycle THEN coerced
        ELSE IF normalizedName \in DEFAULT_KEEP_ALIVE \/ matchesKeepAliveSignature(cmd)
        THEN KeepAlive
        ELSE NoLifecycle

\* resolveLifecycle with the explicit configuration ahead of the force-disable test
resolveLifecycleConfigFirst(incl, excl, n, raw, cmd) ==
    LET normalizedName == toLowerCase(n)
        coerced == IF RawTruthy(raw) THEN coerceLifecycle(raw) ELSE NoLifecycle
    IN  IF forcedEnableFor(incl, n) THEN KeepAlive
        ELSE IF coerced # NoLifecycle THEN coerced
        ELSE IF forcedDisableFor(excl, n) THEN NoLifecycle
        ELSE IF normalizedName \in DEFAULT_KEEP_ALIVE \/ matchesKeepAliveSignature(cmd)
        THEN KeepAlive
        ELSE NoLifecycle

\* resolveLifecycle with the default list ahead of the explicit configuration
resolveLifecycleDefaultsFirst(incl, excl, n, raw, cmd) ==
    LET normalizedName == toLowerCase(n)
        coerced == IF RawTruthy(raw) THEN coerceLifecycle(raw) ELSE NoLifecycle
    IN  IF forcedEnableFor(incl, n) THEN KeepAlive
        ELSE IF forcedDisableFor(excl, n) THEN NoLifecycle
        ELSE IF normalizedName \in DEFAULT_KEEP_ALIVE \/ matchesKeepAliveSignature(cmd)
        THEN KeepAlive
        ELSE IF coerced # NoLifecycle THEN coerced
        ELSE NoLifecycle

resolveLifecycle(incl, excl, n, raw, cmd) ==
    LET normalizedName == toLowerCase(n)
        forcedDisable == forcedDisableFor(excl, n)
        forcedEnable == forcedEnableFor(incl, n)
        coerced == IF RawTruthy(raw) THEN coerceLifecycle(raw) ELSE NoLifecycle
    IN  IF forcedEnable THEN KeepAlive
        ELSE IF forcedDisable THEN NoLifecycle
        ELSE IF coerced # NoLifecycle THEN coerced
        ELSE IF normalizedName \in DEFAULT_KEEP_ALIVE \/ matchesKeepAliveSignature(cmd)
        THEN KeepAlive
        ELSE NoLifecycle

----------------------------------------------------------------------------
(* Inputs of the lifecycle module *)

sFoo == <<"f","o","o">>
sFooPadded == <<" ","F","o","o"," ">>
sFooUpper == <<"F","O","O">>
sBar == <<"b","a","r">>
sStar == <<"*">>
sStarPadded == <<" ","*">>
sPlaywright == <<"P","l","a","y","w","r","i","g","h","t">>
sNpx == <<"n","p","x">>
sDashY == <<"-","y">>
sPlaywrightPkg == <<"@","P","l","a","y","w","r","i","g","h","t","/","M","C","P","@","l","a","t","e","s","t">>
sChromeBin == <<"C","h","r","o","m","e","-","D","e","v","T","o","o","l","s","-","M","C","P">>
sPlaywrightUrl == <<"h","t","t","p","s",":","/","/","e","x","a","m","p","l","e",".","c","o","m","/","p","l","a","y","w","r","i","g","h","t","/","m","c","p">>

\* values of MCPORTER_KEEPALIVE and MCPORTER_DISABLE_KEEPALIVE
EnvValues ==
    { Undef, Str(<<>>), Str(sStar), Str(sFoo),
      Str(join(<<sFooPadded, <<>>, sBar>>)),
      Str(join(<<sPlaywright, sStarPadded>>)),
      Str(join(<<sFooUpper, sPlaywright>>)) }

\* values of MCPORTER_NO_KEEPALIVE, read only when MCPORTER_DISABLE_KEEPALIVE is unset
EnvFallbackValues == { Undef, Str(sFoo) }

Names == { sFoo, sFooUpper, sBar, sPlaywright }

TimeoutValues ==
    { Num(n) : n \in (-(MaxTimeout * TimeoutDen))..(MaxTimeout * TimeoutDen) }
        \cup { NaN, PosInfinity, NegInfinity, NotANumber, Absent }

RawLifecycles ==
    { RawUndefined, RawString(""), RawString("keep-alive"), RawString("ephemeral"), RawString("sticky") }
        \cup { RawObject("keep-alive", t) : t \in TimeoutValues }
        \cup { RawObject("ephemeral", Absent), RawObject("ephemeral", Num(TimeoutDen)),
               RawObject("sticky", Num(TimeoutDen)) }

ArgSeqs == UNION { [1..k -> {sDashY, sPlaywrightPkg}] : k \in 0..MaxArgs }

Commands ==
    { [kind |-> "stdio", command |-> c, args |-> a] : c \in {sNpx, sChromeBin}, a \in ArgSeqs }
        \cup { [kind |-> "http", command |-> sPlaywrightUrl, args |-> <<>>] }

NoCommand == [kind |-> "http", command |-> <<>>, args |-> <<>>]
NoOverride == [all |-> FALSE, names |-> {}]

----------------------------------------------------------------------------
(* Lifecycle module: state machine *)

InitLifecycle ==
    /\ env \in [keepalive : EnvValues, disable : EnvValues, nokeepalive : EnvFallbackValues]
    /\ includeOverride = NoOverride
    /\ excludeOverride = NoOverride
    /\ lcPc = "start"
    /\ name = <<>>
    /\ rawLifecycle = RawUndefined
    /\ command = NoCommand
    /\ lifecycle = NoLifecycle

\* module load: lines 5-6
LoadLifecycleModule ==
    /\ lcPc = "start"
    /\ includeOverride' = parseList(env.keepalive)
    /\ excludeOverride' = parseList(IF env.disable.def THEN env.disable ELSE env.nokeepalive)
    /\ lcPc' = "loaded"
    /\ UNCHANGED <<env, name, rawLifecycle, command, lifecycle>>
    /\ UNCHANGED <<classifierVars, discoveryVars, cacheVars, oauthVars>>

\* one call of resolveLifecycle(name, rawLifecycle, command)
ResolveLifecycle ==
    /\ lcPc = "loaded"
    /\ \E n \in Names, raw \in RawLifecycles, cmd \in Commands :
        /\ name' = n
        /\ rawLifecycle' = raw
        /\ command' = cmd
        /\ lifecycle' = resolveLifecycle(includeOverride, excludeOverride, n, raw, cmd)
    /\ lcPc' = "resolved"
    /\ UNCHANGED <<env, includeOverride, excludeOverride>>
    /\ UNCHANGED <<classifierVars, discoveryVars, cacheVars, oauthVars>>


----------------------------------------------------------------------------
(* Claims about the lifecycle module *)

\* the override sets as the claims speak of them
EnableMatches == includeOverride.all \/ toLowerCase(name) \in includeOverride.names
DisableMatches == excludeOverride.all \/ toLowerCase(name) \in excludeOverride.names

\* the inputs above that carry a valid explicit configuration, with its mode
ExplicitMode(raw) ==
    IF raw.kind = "string" /\ raw.str \in {"keep-alive", "ephemeral"} THEN raw.str
    ELSE IF raw.kind = "object" /\ raw.mode \in {"keep-alive", "ephemeral"} THEN raw.mode
    ELSE "none"

\* the names above that are on the built-in default list once lowercased
OnDefaultList(n) == n = sPlaywright

\* the commands above that run a known expensive tool
RunsKnownTool(cmd) ==
    /\ cmd.kind = "stdio"
    /\ (cmd.command = sChromeBin \/ \E i \in 1..Len(cmd.args) : cmd.args[i] = sPlaywrightPkg)

\* C3: whenever the force-enable override matches the lowercased name (or is
\* "all"), the result is keep-alive with no idleTimeoutMs, whatever the
\* explicit configuration, the command, and the force-disable override are.
C3_ForceEnableWins ==
    (lcPc = "resolved" /\ EnableMatches) => lifecycle = KeepAlive

\* C3 happens: both overrides match the name, the explicit configuration is
\* ephemeral or keep-alive with a valid timeout, and the result is keep-alive.
C3_Witness ==
    /\ lcPc = "resolved"
    /\ EnableMatches /\ DisableMatches
    /\ ~includeOverride.all /\ ~excludeOverride.all
    /\ name = sFooUpper
    /\ rawLifecycle = RawObject("keep-alive", Num(3 * TimeoutDen))
    /\ lifecycle = KeepAlive

\* C7: when the force-disable override matches the lowercased name (or is
\* "all") and the force-enable override does not, the result is undefined,
\* whatever the explicit configuration, the name and the command are.
C7_ForceDisable ==
    (lcPc = "resolved" /\ DisableMatches /\ ~EnableMatches) => lifecycle = NoLifecycle

\* C7 happens: an explicit 'keep-alive' on a default-list name with a
\* heuristic-matching stdio command is disabled by the override.
C7_Witness ==
    /\ lcPc = "resolved"
    /\ DisableMatches /\ ~EnableMatches
    /\ rawLifecycle = RawString("keep-alive")
    /\ OnDefaultList(name)
    /\ RunsKnownTool(command)
    /\ lifecycle = NoLifecycle

\* C8: with an explicit keep-alive object and no matching override, an
\* idleTimeoutMs that is not a finite number of at least 1 is dropped (the
\* result is keep-alive with no timeout); a finite value of at least 1 is
\* truncated to the integer k with k <= value < k + 1; and any idleTimeoutMs
\* in a returned lifecycle is a positive integer.
C8_TimeoutCoercion ==
    /\ (lcPc = "resolved" /\ lifecycle.hasIdleTimeout) =>
            (lifecycle.idleTimeoutMs \in Nat /\ lifecycle.idleTimeoutMs > 0)
    /\ (lcPc = "resolved" /\ ~EnableMatches /\ ~DisableMatches
            /\ rawLifecycle.kind = "object" /\ rawLifecycle.mode = "keep-alive") =>
        LET t == rawLifecycle.idleTimeoutMs
        IN  IF t.type = "number" /\ t.cls = "finite" /\ t.num >= TimeoutDen
            THEN \E k \in 1..(MaxTimeout + 1) :
                    /\ k * TimeoutDen <= t.num
                    /\ t.num < (k + 1) * TimeoutDen
                    /\ lifecycle = KeepAliveFor(k)
            ELSE lifecycle = KeepAlive

\* C8 happens: a fractional timeout above 1 was truncated.
C8_Witness ==
    /\ lcPc = "resolved"
    /\ ~EnableMatches /\ ~DisableMatches
    /\ rawLifecycle = RawObject("keep-alive", Num(2 * TimeoutDen + 1))
    /\ lifecycle = KeepAliveFor(2)

\* C10: when no override matches, the result is that of the first matching
\* rule among (3) a valid explicit configuration, (4) the lowercased name on
\* the default list, (5) a stdio command whose command or argument contains a
\* known fragment in any letter case; otherwise undefined.
C10_RuleOrder ==
    (lcPc = "resolved" /\ ~EnableMatches /\ ~DisableMatches) =>
        IF ExplicitMode(rawLifecycle) # "none"
        THEN lifecycle.mode = ExplicitMode(rawLifecycle)
        ELSE IF OnDefaultList(name) \/ RunsKnownTool(command)
        THEN lifecycle = KeepAlive
        ELSE lifecycle = NoLifecycle

\* C10 happens: an explicit 'ephemeral' on a default-list name with a
\* heuristic-matching command stays ephemeral.
C10_Witness ==
    /\ lcPc = "resolved"
    /\ ~EnableMatches /\ ~DisableMatches
    /\ rawLifecycle = RawString("ephemeral")
    /\ OnDefaultList(name)
    /\ RunsKnownTool(command)
    /\ lifecycle = Ephemeral

----------------------------------------------------------------------------
(* src/src/cli.ts: error classification *)

Digits == <<"0","1","2","3","4","5","6","7","8","9">>
IsDigit(c) == \E d \in 1..10 : Digits[d] = c
DigitValue(c) == (CHOOSE d \in 1..10 : Digits[d] = c) - 1

\* Number.parseInt(text, 10) of a run of decimal digits
RECURSIVE parseInt(_)
parseInt(text) ==
    IF Len(text) = 0 THEN 0
    ELSE 10 * parseInt(SubSeq(text, 1, Len(text) - 1)) + DigitValue(text[Len(text)])

sStatusCode == <<"s","t","a","t","u","s"," ","c","o","d","e">>

\* where /status code\s*\((\d{3})\)/i matches when tried at position i:
\* the position of the opening parenthesis, or 0 when it does not match
StatusParenAt(s, i) ==
    IF i + Len(sStatusCode) - 1 > Len(s)
        \/ toLowerCase(SubSeq(s, i, i + Len(sStatusCode) - 1)) # sStatusCode
    THEN 0
    ELSE LET from == i + Len(sStatusCode)
             rest == { j \in from..Len(s) : ~IsSpace(s[j]) }
             p == IF rest = {} THEN 0 ELSE CHOOSE j \in rest : \A k \in rest : j <= k
         IN  IF p # 0 /\ p + 4 <= Len(s)
                  /\ s[p] = "(" /\ IsDigit(s[p + 1]) /\ IsDigit(s[p + 2]) /\ IsDigit(s[p + 3])
                  /\ s[p + 4] = ")"
             THEN p
             ELSE 0

\* rawMessage.match(...)?.[1] parsed: the three digits of the leftmost match
\* as a number, or -1 (the `statusCode ?? -1` of line 441) when nothing matches
statusCodeOf(rawMessage) ==
    LET starts == { i \in 1..Len(rawMessage) : StatusParenAt(rawMessage, i) # 0 }
    IN  IF starts = {} THEN -1
        ELSE LET i == CHOOSE x \in starts : \A y \in starts : x <= y
                 p == StatusParenAt(rawMessage, i)
                 code == parseInt(SubSeq(rawMessage, p + 1, p + 3))
             IN  code

authStatuses == {401, 403, 405}

sAuthRequired == <<"a","u","t","h"," ","r","e","q","u","i","r","e","d">>
sOffline == <<"o","f","f","l","i","n","e">>
sUnknownError == <<"u","n","k","n","o","w","n"," ","e","r","r","o","r">>
sMcporterAuth == <<"m","c","p","o","r","t","e","r"," ","a","u","t","h"," ">>
\* in the two notes "-" stands for the em dash of the source text
sAuthNoteHead == <<"a","u","t","h"," ","r","e","q","u","i","r","e","d"," ","-"," ","r","u","n"," ","'">>
sOfflineNote == <<"o","f","f","l","i","n","e"," ","-"," ","u","n","a","b","l","e"," ","t","o"," ","r","e","a","c","h"," ","s","e","r","v","e","r">>

\* the substrings of the second test (lines 452-462)
OfflineSubstrings ==
    { <<"f","e","t","c","h"," ","f","a","i","l","e","d">>,
      <<"e","c","o","n","n","r","e","f","u","s","e","d">>,
      <<"c","o","n","n","e","c","t","i","o","n"," ","r","e","f","u","s","e","d">>,
      <<"c","o","n","n","e","c","t","i","o","n"," ","c","l","o","s","e","d">>,
      <<"c","o","n","n","e","c","t","i","o","n"," ","r","e","s","e","t">>,
      <<"s","o","c","k","e","t"," ","h","a","n","g"," ","u","p">>,
      <<"c","o","n","n","e","c","t"," ","t","i","m","e","o","u","t">>,
      <<"n","e","t","w","o","r","k"," ","i","s"," ","u","n","r","e","a","c","h","a","b","l","e">>,
      <<"t","i","m","e","d"," ","o","u","t">>,
      <<"t","i","m","e","o","u","t">>,
      <<"t","i","m","e","o","u","t"," ","a","f","t","e","r">> }

\* the substrings of the first test (lines 442-445)
AuthSubstrings ==
    { <<"4","0","1">>,
      <<"u","n","a","u","t","h","o","r","i","z","e","d">>,
      <<"i","n","v","a","l","i","d","_","t","o","k","e","n">>,
      <<"f","o","r","b","i","d","d","e","n">> }

\* a thrown value: an UnauthorizedError, another Error, a string, or undefined
Thrown(k, msg) == [kind |-> k, message |-> msg]

\* yellowText / redText of the terminal collaborator: the text with its colour
yellowText(text) == [colour |-> "yellow", text |-> text]
redText(text) == [colour |-> "red", text |-> text]

NoCommandText == [def |-> FALSE, v |-> <<>>]

AuthAdvice(server) ==
    [colored |-> yellowText(sAuthNoteHead \o sMcporterAuth \o server \o <<"'">>),
     summary |-> sAuthRequired,
     category |-> "auth",
     authCommand |-> Str(sMcporterAuth \o server)]

OfflineAdvice ==
    [colored |-> redText(sOfflineNote),
     summary |-> sOffline,
     category |-> "offline",
     authCommand |-> NoCommandText]

ErrorAdvice(rawMessage) ==
    LET shown == IF rawMessage = <<>> THEN sUnknownError ELSE rawMessage
    IN  [colored |-> redText(shown),
         summary |-> shown,
         category |-> "error",
         authCommand |-> NoCommandText]

\* lines 431-432: Error -> its message, string -> itself,
\* anything else -> JSON.stringify(error) ?? '' (undefined gives '')
rawMessageOf(err) ==
    IF err.kind \in {"UnauthorizedError", "Error", "string"} THEN err.message ELSE <<>>

\* classifyListError with the network test ahead of the authorization test
classifyListErrorOfflineFirst(err, server, timeoutSeconds) ==
    IF err.kind = "UnauthorizedError"
    THEN AuthAdvice(server)
    ELSE LET rawMessage == rawMessageOf(err)
             normalized == toLowerCase(rawMessage)
         IN  IF \E sub \in OfflineSubstrings : includes(normalized, sub)
             THEN OfflineAdvice
             ELSE IF statusCodeOf(rawMessage) \in authStatuses
                      \/ \E sub \in AuthSubstrings : includes(normalized, sub)
             THEN AuthAdvice(server)
             ELSE ErrorAdvice(rawMessage)

classifyListError(err, server, timeoutSeconds) ==
    IF err.kind = "UnauthorizedError"
    THEN AuthAdvice(server)
    ELSE LET rawMessage == rawMessageOf(err)
             normalized == toLowerCase(rawMessage)
             statusCode == statusCodeOf(rawMessage)
         IN  IF statusCode \in authStatuses
                  \/ \E sub \in AuthSubstrings : includes(normalized, sub)
             THEN AuthAdvice(server)
             ELSE IF \E sub \in OfflineSubstrings : includes(normalized, sub)
             THEN OfflineAdvice
             ELSE ErrorAdvice(rawMessage)

----------------------------------------------------------------------------
(* Inputs of the error classifier *)

pRefused == <<"c","o","n","n","e","c","t"," ","E","C","O","N","N","R","E","F","U","S","E","D">>
pHostPort4010 == <<" ","1","2","7",".","0",".","0",".","1",":","4","0","1","0">>
pHostPort3000 == <<" ","1","2","7",".","0",".","0",".","1",":","3","0","0","0">>
pStatus401 == <<"s","t","a","t","u","s"," ","c","o","d","e"," ","(","4","0","1",")">>
pStatus403 == <<"s","t","a","t","u","s"," ","c","o","d","e"," ","(","4","0","3",")">>
pStatus405 == <<"S","t","a","t","u","s"," ","C","o","d","e"," "," ","(","4","0","5",")">>
pStatus500 == <<"s","t","a","t","u","s"," ","c","o","d","e"," ","(","5","0","0",")">>
pHttp401 == <<"H","T","T","P"," ","4","0","1">>
pHttp403 == <<"H","T","T","P"," ","4","0","3">>
pHttp405 == <<"H","T","T","P"," ","4","0","5">>
pUnauthorized == <<"U","n","a","u","t","h","o","r","i","z","e","d">>
pInvalidToken == <<"i","n","v","a","l","i","d","_","t","o","k","e","n">>
pForbidden == <<"F","o","r","b","i","d","d","e","n">>
pTimedOut == <<" ","r","e","q","u","e","s","t"," ","t","i","m","e","d"," ","o","u","t">>
pTimeout == <<" ","T","i","m","e","o","u","t">>
pBoom == <<"b","o","o","m">>

MessageParts ==
    { pRefused, pHostPort4010, pHostPort3000, pStatus401, pStatus403, pStatus405, pStatus500,
      pHttp401, pHttp403, pHttp405, pUnauthorized, pInvalidToken, pForbidden,
      pTimedOut, pTimeout, pBoom }

PartSeqs == UNION { [1..k -> MessageParts] : k \in 0..MaxParts }

RECURSIVE concat(_)
concat(parts) == IF Len(parts) = 0 THEN <<>> ELSE parts[1] \o concat(Tail(parts))

ErrorKinds == {"UnauthorizedError", "Error", "string", "undefined"}

sSrv == <<"s","r","v">>
sFiles == <<"F","i","l","e","s">>
ServerNames == { sSrv, sFiles }

NoError == Thrown("undefined", <<>>)
NoAdvice == [colored |-> redText(<<>>), summary |-> <<>>, category |-> "none",
             authCommand |-> NoCommandText]

----------------------------------------------------------------------------
(* Error classifier: state machine *)

InitClassifier ==
    /\ clPc = "start"
    /\ error = NoError
    /\ errorParts = <<>>
    /\ serverName = <<>>
    /\ advice = NoAdvice

\* one call of classifyListError(error, serverName, timeoutSeconds)
ClassifyListError ==
    /\ clPc = "start"
    /\ \E k \in ErrorKinds, parts \in PartSeqs, server \in ServerNames, timeoutSeconds \in {30} :
        /\ (k = "undefined" => parts = <<>>)
        /\ error' = Thrown(k, concat(parts))
        /\ errorParts' = parts
        /\ serverName' = server
        /\ advice' = classifyListError(Thrown(k, concat(parts)), server, timeoutSeconds)
    /\ clPc' = "classified"
    /\ UNCHANGED <<lifecycleVars, discoveryVars, cacheVars, oauthVars>>

----------------------------------------------------------------------------
(* Claims about the error classifier *)

\* the message pieces above that word an authorization failure
AuthParts ==
    { pStatus401, pStatus403, pStatus405, pHttp401, pUnauthorized, pInvalidToken, pForbidden }

\* the message pieces above that carry an authorization substring
AuthSubstringParts == { pStatus401, pHttp401, pUnauthorized, pInvalidToken, pForbidden }

\* the message pieces above of the form "status code (NNN)"
StatusParts == { pStatus401, pStatus403, pStatus405, pStatus500 }

\* the status code of a message is the code of its first "status code (NNN)"
FirstStatusIsAuth ==
    \E i \in 1..Len(errorParts) :
        /\ errorParts[i] \in {pStatus401, pStatus403, pStatus405}
        /\ \A j \in 1..(i - 1) : errorParts[j] \notin StatusParts

\* the message pieces above that name one of the codes 401, 403, 405
AuthCodeParts == { pStatus401, pStatus403, pStatus405, pHttp401, pHttp403, pHttp405 }

HasPart(S) == \E i \in 1..Len(errorParts) : errorParts[i] \in S

\* C4: an error that satisfies the authorization rule (an UnauthorizedError,
\* an authorization status code, or an authorization substring) is classified
\* auth, also when its message carries network-failure wording.
C4_AuthBeforeOffline ==
    (clPc = "classified"
        /\ (error.kind = "UnauthorizedError" \/ FirstStatusIsAuth \/ HasPart(AuthSubstringParts)))
        => advice.category = "auth"

\* C4 happens: "Unauthorized request timed out" is classified auth.
C4_Witness ==
    /\ clPc = "classified"
    /\ error.kind = "Error"
    /\ errorParts = <<pUnauthorized, pTimedOut>>
    /\ advice.category = "auth"

\* C5: every error whose message contains "ECONNREFUSED" is classified
\* offline, whatever else the message contains (a host address, a port
\* number).  Stated for the errors that carry no authorization wording, which
\* the documented precedence of the authorization rule does not concern.
C5_RefusedIsOffline ==
    (clPc = "classified" /\ error.kind \in {"Error", "string"}
        /\ HasPart({pRefused}) /\ ~HasPart(AuthParts \cup AuthCodeParts))
        => advice.category = "offline"

\* C6: an UnauthorizedError, or an error whose message or status code names
\* 401, 403 or 405, or whose message contains "unauthorized", "invalid_token"
\* or "forbidden" in any letter case, is classified auth with the remediation
\* command "mcporter auth <serverName>"; the three codes act alike.
C6_AuthCodesAlike ==
    (clPc = "classified" /\ (error.kind = "UnauthorizedError" \/ HasPart(AuthParts \cup AuthCodeParts)))
        => (advice.category = "auth" /\ advice.authCommand = Str(sMcporterAuth \o serverName))

----------------------------------------------------------------------------
(* src/src/cli.ts: rendering one row of the server list *)

\* String(n) of a natural number
RECURSIVE toString(_)
toString(n) ==
    IF n < 10 THEN <<Digits[n + 1]>> ELSE toString(n \div 10) \o <<Digits[(n % 10) + 1]>>

sNoTools == <<"n","o"," ","t","o","o","l","s"," ","r","e","p","o","r","t","e","d">>
sOneTool == <<"1"," ","t","o","o","l">>
sTools == <<" ","t","o","o","l","s">>

\* Math.round(timeoutMs / 1000) for timeoutMs >= 0
timeoutSecondsOf(timeoutMs) == (timeoutMs + 500) \div 1000

\* a ListSummaryResult; tools is the number of tools reported
OkResult(server, tools, durationMs) ==
    [status |-> "ok", server |-> server, tools |-> tools, error |-> NoError, durationMs |-> durationMs]
ErrorResult(server, err, durationMs) ==
    [status |-> "error", server |-> server, tools |-> 0, error |-> err, durationMs |-> durationMs]

\* renderServerListRow with the test of result.status inverted
renderServerListRowInverted(result, timeoutMs) ==
    IF result.status # "ok"
    THEN LET toolSuffix == IF result.tools = 0 THEN sNoTools
                           ELSE IF result.tools = 1 THEN sOneTool
                           ELSE toString(result.tools) \o sTools
         IN  [server |-> result.server.name, summary |-> toolSuffix, category |-> "ok",
              authCommand |-> NoCommandText]
    ELSE LET a == classifyListError(result.error, result.server.name, timeoutSecondsOf(timeoutMs))
         IN  [server |-> result.server.name, summary |-> a.summary, category |-> a.category,
              authCommand |-> a.authCommand]

\* The returned `line` is the terminal collaborator's rendering of the
\* server's name and description, the summary (or the coloured advice), the
\* duration and the source; of it the row keeps the server's name.
renderServerListRow(result, timeoutMs) ==
    IF result.status = "ok"
    THEN LET toolSuffix == IF result.tools = 0 THEN sNoTools
                           ELSE IF result.tools = 1 THEN sOneTool
                           ELSE toString(result.tools) \o sTools
         IN  [server |-> result.server.name, summary |-> toolSuffix, category |-> "ok",
              authCommand |-> NoCommandText]
    ELSE LET a == classifyListError(result.error, result.server.name, timeoutSecondsOf(timeoutMs))
         IN  [server |-> result.server.name, summary |-> a.summary, category |-> a.category,
              authCommand |-> a.authCommand]

----------------------------------------------------------------------------
(* Discovery scheduler (spec.md 4.5) *)

\* default list timeout in milliseconds
DefaultListTimeoutMs == 30000

\* the configured servers, in configuration order; names are unique
ServerDef(i) == [name |-> <<"s">> \o toString(i)]
Servers == [i \in 1..NumServers |-> ServerDef(i)]

sTimeoutMessageHead == <<"T","i","m","e","o","u","t"," ","a","f","t","e","r"," ">>
sMs == <<"m","s">>

\* the failure recorded when a server does not answer within the timeout
TimeoutError(timeoutMs) == Thrown("Error", sTimeoutMessageHead \o toString(timeoutMs) \o sMs)

\* what the transport collaborator of a server can throw
TransportErrors ==
    { Thrown("UnauthorizedError", pUnauthorized),
      Thrown("Error", pStatus401),
      Thrown("Error", pRefused \o pHostPort3000),
      Thrown("Error", pBoom) }

\* the outcome of server definition `server` among the completed ones
OutcomeOf(done, server) == done[CHOOSE k \in 1..Len(done) : done[k].server = server]

\* the outcomes are collected in configuration order
Collect(done, servers) == [i \in 1..Len(servers) |-> OutcomeOf(done, servers[i])]

InitDiscovery ==
    /\ dPc = "idle"
    /\ serverState = [i \in 1..NumServers |-> "pending"]
    /\ completed = <<>>
    /\ results = <<>>
    /\ rows = <<>>

\* a collaborator (config loading) fails before any server is attempted
PreflightFails ==
    /\ dPc = "idle"
    /\ dPc' = "raised"
    /\ UNCHANGED <<serverState, completed, results, rows>>
    /\ UNCHANGED <<lifecycleVars, classifierVars, cacheVars, oauthVars>>

\* fan-out: one operation is started for every configured server
StartDiscovery ==
    /\ dPc = "idle"
    /\ dPc' = "running"
    /\ serverState' = [i \in 1..NumServers |-> "running"]
    /\ UNCHANGED <<completed, results, rows>>
    /\ UNCHANGED <<lifecycleVars, classifierVars, cacheVars, oauthVars>>

\* a server answers the list-tools request within the timeout
ServerSucceeds(i) ==
    /\ dPc = "running"
    /\ serverState[i] = "running"
    /\ \E tools \in {0, 1, MaxTools} :
        completed' = Append(completed, OkResult(Servers[i], tools, 0))
    /\ serverState' = [serverState EXCEPT ![i] = "ok"]
    /\ UNCHANGED <<dPc, results, rows>>
    /\ UNCHANGED <<lifecycleVars, classifierVars, cacheVars, oauthVars>>

\* connecting to a server, or its list-tools request, throws
ServerFails(i) ==
    /\ dPc = "running"
    /\ serverState[i] = "running"
    /\ \E err \in TransportErrors :
        completed' = Append(completed, ErrorResult(Servers[i], err, 0))
    /\ serverState' = [serverState EXCEPT ![i] = "failed"]
    /\ UNCHANGED <<dPc, results, rows>>
    /\ UNCHANGED <<lifecycleVars, classifierVars, cacheVars, oauthVars>>

\* a server does not answer within the timeout: only its request is cancelled
ServerTimesOut(i) ==
    /\ dPc = "running"
    /\ serverState[i] = "running"
    /\ completed' = Append(completed,
            ErrorResult(Servers[i], TimeoutError(DefaultListTimeoutMs), DefaultListTimeoutMs))
    /\ serverState' = [serverState EXCEPT ![i] = "failed"]
    /\ UNCHANGED <<dPc, results, rows>>
    /\ UNCHANGED <<lifecycleVars, classifierVars, cacheVars, oauthVars>>

\* every server is in a terminal state: the outcomes are collected and rendered
RenderRows ==
    /\ dPc = "running"
    /\ \A i \in 1..NumServers : serverState[i] \in {"ok", "failed"}
    /\ LET collected == Collect(completed, Servers)
       IN  /\ results' = collected
           /\ rows' = [i \in 1..Len(collected) |->
                          renderServerListRow(collected[i], DefaultListTimeoutMs)]
    /\ dPc' = "done"
    /\ UNCHANGED <<serverState, completed>>
    /\ UNCHANGED <<lifecycleVars, classifierVars, cacheVars, oauthVars>>

NextDiscovery ==
    \/ PreflightFails
    \/ StartDiscovery
    \/ \E i \in 1..NumServers : ServerSucceeds(i)
    \/ \E i \in 1..NumServers : ServerFails(i)
    \/ \E i \in 1..NumServers : ServerTimesOut(i)
    \/ RenderRows

IdleDiscovery ==
    /\ dPc = "off"
    /\ serverState = <<>>
    /\ completed = <<>>
    /\ results = <<>>
    /\ rows = <<>>

----------------------------------------------------------------------------
(* Claims about discovery *)

----------------------------------------------------------------------------
(* Connection cache (spec.md 4.3 and 5) *)

\* the configured server names and their resolved lifecycle
CacheServerNames == {"playwright", "files"}
IsKeepAlive(n) == n = "playwright"

Callers == 1..NumCallers

IdleCaller == [pc |-> "idle", name |-> "", awaits |-> 0, connection |-> 0, joined |-> FALSE]

\* a connection is named by the number of the creation that made it
ConnectionId(n, k) ==
    (IF n = "playwright" THEN 100 ELSE 200) + k

\* the cache keeps only finished connections: a creation in flight is not seen
PendingCreationsUnseen(pending, n) == {}

\* the in-flight creations cached under a server name
PendingCreations(pending, n) == { f \in pending : f.name = n /\ f.cached }

EntriesOf(entries, n) == { e \in entries : e.name = n }

InitCache ==
    /\ ccPc = "open"
    /\ cacheEntries = {}
    /\ creating = {}
    /\ liveConnections = {}
    /\ createCalls = [n \in CacheServerNames |-> 0]
    /\ evictions = [n \in CacheServerNames |-> 0]
    /\ callers = [c \in Callers |-> IdleCaller]

\* getOrCreate(n) finds a live entry: the caller receives its connection
GetCached(c, n) ==
    /\ ccPc = "open"
    /\ callers[c].pc = "idle"
    /\ \E e \in EntriesOf(cacheEntries, n) :
        callers' = [callers EXCEPT ![c] =
            [pc |-> "holding", name |-> n, awaits |-> 0, connection |-> e.connection, joined |-> FALSE]]
    /\ UNCHANGED <<ccPc, cacheEntries, creating, liveConnections, createCalls, evictions>>
    /\ UNCHANGED <<lifecycleVars, classifierVars, discoveryVars, oauthVars>>

\* getOrCreate(n) finds a creation in flight: the caller awaits the same creation
JoinCreation(c, n) ==
    /\ ccPc = "open"
    /\ callers[c].pc = "idle"
    /\ EntriesOf(cacheEntries, n) = {}
    /\ \E f \in PendingCreations(creating, n) :
        callers' = [callers EXCEPT ![c] =
            [pc |-> "waiting", name |-> n, awaits |-> f.id, connection |-> 0, joined |-> TRUE]]
    /\ UNCHANGED <<ccPc, cacheEntries, creating, liveConnections, createCalls, evictions>>
    /\ UNCHANGED <<lifecycleVars, classifierVars, discoveryVars, oauthVars>>

\* getOrCreate(n) finds nothing: the creation collaborator is invoked; for a
\* keep-alive server the creation in flight is cached under the name
StartCreation(c, n) ==
    /\ ccPc = "open"
    /\ callers[c].pc = "idle"
    /\ EntriesOf(cacheEntries, n) = {}
    /\ PendingCreations(creating, n) = {}
    /\ createCalls[n] < MaxCreates
    /\ LET id == ConnectionId(n, createCalls[n] + 1)
       IN  /\ creating' = creating \cup {[id |-> id, name |-> n, cached |-> IsKeepAlive(n)]}
           /\ callers' = [callers EXCEPT ![c] =
                [pc |-> "waiting", name |-> n, awaits |-> id, connection |-> 0, joined |-> FALSE]]
    /\ createCalls' = [createCalls EXCEPT ![n] = @ + 1]
    /\ UNCHANGED <<ccPc, cacheEntries, liveConnections, evictions>>
    /\ UNCHANGED <<lifecycleVars, classifierVars, discoveryVars, oauthVars>>

\* a creation completes: a keep-alive connection becomes the entry of its
\* name, and every caller awaiting the creation receives the connection
CreationCompletes ==
    /\ ccPc = "open"
    /\ \E f \in creating :
        /\ creating' = creating \ {f}
        /\ liveConnections' = liveConnections \cup {f.id}
        /\ cacheEntries' = IF f.cached
                           THEN cacheEntries \cup {[name |-> f.name, connection |-> f.id]}
                           ELSE cacheEntries
        /\ callers' = [c \in Callers |->
                IF callers[c].pc = "waiting" /\ callers[c].awaits = f.id
                THEN [callers[c] EXCEPT !.pc = "holding", !.connection = f.id]
                ELSE callers[c]]
    /\ UNCHANGED <<ccPc, createCalls, evictions>>
    /\ UNCHANGED <<lifecycleVars, classifierVars, discoveryVars, oauthVars>>

\* the caller's operation finishes; an ephemeral connection is closed at once
Release(c) ==
    /\ ccPc = "open"
    /\ callers[c].pc = "holding"
    /\ liveConnections' = IF IsKeepAlive(callers[c].name)
                          THEN liveConnections
                          ELSE liveConnections \ {callers[c].connection}
    /\ callers' = [callers EXCEPT ![c] = IdleCaller]
    /\ UNCHANGED <<ccPc, cacheEntries, creating, createCalls, evictions>>
    /\ UNCHANGED <<lifecycleVars, classifierVars, discoveryVars, oauthVars>>

\* the idle timer of a keep-alive entry fires with no intervening use
IdleEvict(n) ==
    /\ ccPc = "open"
    /\ \E e \in EntriesOf(cacheEntries, n) :
        /\ \A c \in Callers : ~(callers[c].pc = "holding" /\ callers[c].connection = e.connection)
        /\ cacheEntries' = cacheEntries \ {e}
        /\ liveConnections' = liveConnections \ {e.connection}
    /\ evictions' = [evictions EXCEPT ![n] = @ + 1]
    /\ UNCHANGED <<ccPc, creating, createCalls, callers>>
    /\ UNCHANGED <<lifecycleVars, classifierVars, discoveryVars, oauthVars>>

\* shutdown: every cached connection is closed and the cache is drained
CloseAll ==
    /\ ccPc = "open"
    /\ ccPc' = "closed"
    /\ liveConnections' = liveConnections \ { e.connection : e \in cacheEntries }
    /\ evictions' = [n \in CacheServerNames |->
                        evictions[n] + Cardinality(EntriesOf(cacheEntries, n))]
    /\ cacheEntries' = {}
    /\ UNCHANGED <<creating, createCalls, callers>>
    /\ UNCHANGED <<lifecycleVars, classifierVars, discoveryVars, oauthVars>>

NextCache ==
    \/ \E c \in Callers, n \in CacheServerNames : GetCached(c, n)
    \/ \E c \in Callers, n \in CacheServerNames : JoinCreation(c, n)
    \/ \E c \in Callers, n \in CacheServerNames : StartCreation(c, n)
    \/ CreationCompletes
    \/ \E c \in Callers : Release(c)
    \/ \E n \in CacheServerNames : IdleEvict(n)
    \/ CloseAll

IdleCache ==
    /\ ccPc = "off"
    /\ cacheEntries = {}
    /\ creating = {}
    /\ liveConnections = {}
    /\ createCalls = <<>>
    /\ evictions = <<>>
    /\ callers = <<>>

----------------------------------------------------------------------------
(* Claims about the connection cache *)

\* C1: for a keep-alive server name, under any interleaving of concurrent
\* getOrCreate calls issued before the first creation completes, the creation
\* collaborator is invoked exactly once for the name (a further invocation
\* needs the entry to have been removed first) and every caller receives the
\* same connection; the cache holds at most one entry per server name, and
\* an entry's connection is live.
C1_OneCreationPerName ==
    ccPc \in {"open", "closed"} =>
        /\ \A n \in CacheServerNames : Cardinality(EntriesOf(cacheEntries, n)) <= 1
        /\ \A e \in cacheEntries : e.connection \in liveConnections
        /\ \A n \in CacheServerNames : IsKeepAlive(n) =>
            /\ createCalls[n] <= evictions[n] + 1
            /\ Cardinality({ f \in creating : f.name = n }) <= 1
            /\ \A c1, c2 \in Callers :
                (callers[c1].pc = "holding" /\ callers[c2].pc = "holding"
                    /\ callers[c1].name = n /\ callers[c2].name = n)
                => callers[c1].connection = callers[c2].connection
            /\ \A c \in Callers :
                (callers[c].name = n /\ callers[c].pc = "waiting")
                => \E f \in creating : f.name = n /\ f.id = callers[c].awaits

\* C1 happens: three callers asked for the same keep-alive name before the
\* first creation completed; the collaborator was invoked once and all three
\* hold the one cached connection.
C1_Witness ==
    /\ ccPc = "open"
    /\ createCalls["playwright"] = 1
    /\ \A c \in 1..3 : callers[c].pc = "holding" /\ callers[c].name = "playwright"
    /\ Cardinality({ c \in 1..3 : callers[c].joined }) = 2
    /\ Cardinality({ callers[c].connection : c \in 1..3 }) = 1
    /\ cacheEntries = {[name |-> "playwright", connection |-> callers[1].connection]}

----------------------------------------------------------------------------
(* OAuth gate (spec.md 4.2) *)

\* the sentinel path of a server that no configuration file backs
AdhocPath == "<adhoc>"

sTokenCacheBase == <<"/","o","a","u","t","h","/">>

\* a ServerDefinition
Definition(n, cmd, src, described) ==
    [name |-> n, command |-> cmd, source |-> src, described |-> described,
     auth |-> "", tokenCacheDir |-> Undef]

NoDefinition == Definition(<<>>, [kind |-> "", target |-> ""], [kind |-> "", path |-> ""], FALSE)

Unchanged == [def |-> FALSE, value |-> NoDefinition]
Changed(d) == [def |-> TRUE, value |-> d]

isAdHocHttp(d) ==
    /\ d.command.kind = "http"
    /\ d.source.kind = "local"
    /\ d.source.path = AdhocPath

tokenCacheDirFor(n) == sTokenCacheBase \o n

\* maybeEnableOAuth setting the fields on the definition it was given
maybeEnableOAuthInPlace(d, infos) ==
    IF isAdHocHttp(d)
    THEN LET upgraded == [d EXCEPT !.auth = "oauth", !.tokenCacheDir = Str(tokenCacheDirFor(d.name))]
         IN  [result |-> Changed(upgraded), definition |-> upgraded, infoCalls |-> infos + 1]
    ELSE [result |-> Unchanged, definition |-> d, infoCalls |-> infos]

\* maybeEnableOAuth(definition, logger): the result, the definition object
\* after the call, and the count of logger.info calls after the call
maybeEnableOAuth(d, infos) ==
    IF isAdHocHttp(d)
    THEN LET upgraded == [d EXCEPT !.auth = "oauth", !.tokenCacheDir = Str(tokenCacheDirFor(d.name))]
         IN  [result |-> Changed(upgraded), definition |-> d, infoCalls |-> infos + 1]
    ELSE [result |-> Unchanged, definition |-> d, infoCalls |-> infos]

sAdhocServer == <<"a","d","h","o","c","-","s","e","r","v","e","r">>
sLocalServer == <<"l","o","c","a","l","-","s","e","r","v","e","r">>
sDocs == <<"d","o","c","s">>

DefinitionNames == { sAdhocServer, sLocalServer, sDocs }

DefinitionCommands ==
    { [kind |-> "http", target |-> "https://example.com/mcp"],
      [kind |-> "http", target |-> "https://example.com"],
      [kind |-> "stdio", target |-> "npx"] }

DefinitionSources ==
    { [kind |-> "local", path |-> AdhocPath],
      [kind |-> "local", path |-> "/tmp/config.json"],
      [kind |-> "import", path |-> AdhocPath],
      [kind |-> "import", path |-> "/tmp/imported.json"] }

Definitions ==
    { Definition(n, cmd, src, described) :
        n \in DefinitionNames, cmd \in DefinitionCommands, src \in DefinitionSources,
        described \in BOOLEAN }

InitOAuth ==
    /\ oPc = "start"
    /\ given \in Definitions
    /\ definition = given
    /\ updated = Unchanged
    /\ infoCalls = 0

\* one call of maybeEnableOAuth(definition, logger)
MaybeEnableOAuth ==
    /\ oPc = "start"
    /\ LET r == maybeEnableOAuth(definition, infoCalls)
       IN  /\ updated' = r.result
           /\ definition' = r.definition
           /\ infoCalls' = r.infoCalls
    /\ oPc' = "done"
    /\ UNCHANGED given
    /\ UNCHANGED <<lifecycleVars, classifierVars, discoveryVars, cacheVars>>

NextOAuth == MaybeEnableOAuth

IdleOAuth ==
    /\ oPc = "off"
    /\ given = NoDefinition
    /\ definition = NoDefinition
    /\ updated = Unchanged
    /\ infoCalls = 0

----------------------------------------------------------------------------
(* Claims about the OAuth gate *)

\* C9: for a definition whose command is HTTP and whose source is local with
\* the ad-hoc sentinel path, maybeEnableOAuth returns a new definition with
\* auth = 'oauth' and a tokenCacheDir containing the server name, and logs
\* through logger.info; for any other definition it returns undefined; in
\* both cases the definition it was given is left as it was.
C9_OAuthGate ==
    oPc = "done" =>
        /\ definition = given
        /\ IF given.command.kind = "http" /\ given.source = [kind |-> "local", path |-> "<adhoc>"]
           THEN /\ updated.def
                /\ updated.value.auth = "oauth"
                /\ updated.value.tokenCacheDir.def
                /\ includes(updated.value.tokenCacheDir.v, given.name)
                /\ updated.value.name = given.name
                /\ updated.value.command = given.command
                /\ updated.value.source = given.source
                /\ infoCalls >= 1
           ELSE /\ ~updated.def
                /\ infoCalls = 0

\* C9 happens: the ad-hoc HTTP server of the test was upgraded.
C9_Witness ==
    /\ oPc = "done"
    /\ given.name = sAdhocServer
    /\ given.command.kind = "http"
    /\ given.source = [kind |-> "local", path |-> "<adhoc>"]
    /\ updated.def
    /\ updated.value.auth = "oauth"
    /\ definition.auth = ""

\* C9 happens, other case: an HTTP server backed by a local file is left alone.
C9_WitnessNoChange ==
    /\ oPc = "done"
    /\ given.name = sLocalServer
    /\ given.command.kind = "http"
    /\ given.source = [kind |-> "local", path |-> "/tmp/config.json"]
    /\ ~updated.def

----------------------------------------------------------------------------
(* Specifications *)

IdleLifecycle ==
    /\ env = [keepalive |-> Undef, disable |-> Undef, nokeepalive |-> Undef]
    /\ includeOverride = NoOverride
    /\ excludeOverride = NoOverride
    /\ lcPc = "off"
    /\ name = <<>>
    /\ rawLifecycle = RawUndefined
    /\ command = NoCommand
    /\ lifecycle = NoLifecycle

IdleClassifier ==
    /\ clPc = "off"
    /\ error = NoError
    /\ errorParts = <<>>
    /\ serverName = <<>>
    /\ advice = NoAdvice

NextLifecycle == LoadLifecycleModule \/ ResolveLifecycle

StartLifecycle == InitLifecycle /\ IdleClassifier /\ IdleDiscovery /\ IdleCache /\ IdleOAuth

SpecLifecycle == StartLifecycle /\ [][NextLifecycle]_vars

NextClassifier == ClassifyListError

StartClassifier == InitClassifier /\ IdleLifecycle /\ IdleDiscovery /\ IdleCache /\ IdleOAuth

SpecClassifier == StartClassifier /\ [][NextClassifier]_vars

StartDiscoveryRun == InitDiscovery /\ IdleLifecycle /\ IdleClassifier /\ IdleCache /\ IdleOAuth

SpecDiscovery == StartDiscoveryRun /\ [][NextDiscovery]_vars

StartCache == InitCache /\ IdleLifecycle /\ IdleClassifier /\ IdleDiscovery /\ IdleOAuth

SpecCache == StartCache /\ [][NextCache]_vars

StartOAuth == InitOAuth /\ IdleLifecycle /\ IdleClassifier /\ IdleDiscovery /\ IdleCache

SpecOAuth == StartOAuth /\ [][NextOAuth]_vars

====
